---- MODULE Spec2Model ----
(***************************************************************************)
(* A model of the tram language core: the scope stack (LocalStack), the    *)
(* tree-walking executor (VM::execute), user function invocation           *)
(* (Function::call) and the precedence-climbing parser (Parser).           *)
(*                                                                         *)
(* The executor is recursive in the source; here every activation of       *)
(* execute is a frame of the sequence kont, and one step runs the code of  *)
(* the top activation up to its next recursive call or its return.         *)
(***************************************************************************)
EXTENDS Integers, Sequences, FiniteSets, TLC

VARIABLES
    markers,    \* LocalStack.markers : Vec<usize>
    locals,     \* LocalStack.locals  : Vec<(String, Value)>
    exit_flag,  \* VM.exit_flag
    kont,       \* the activations of VM::execute / Function::call, outermost first
    ret,        \* the Result returned by the activation that has just finished
    panic,      \* "" or the message of the panic that ended the process
    runs,       \* number of top-level executions started on this VM
    ev,         \* history: what the last step did, and the state it started from
    source,     \* the token sequence handed to the parser
    parsed,     \* the result of parse_all on source, once parsed
    probe,      \* history of the last LocalStack operation applied directly
    heap,       \* the cells behind the Handle<T> allocated so far, oldest first
    lexer       \* a Lexer, the tokens its next() returned so far, and whether
                \* a call of next() is still running

vars == <<markers, locals, exit_flag, kont, ret, panic, runs, ev, source, parsed, probe,
          heap, lexer>>

(***************************************************************************)
(* Bounds                                                                  *)
(***************************************************************************)
MaxRuns == 2        \* top-level executions on one VM
MaxNum == 3         \* largest number a program may compute
MaxDepth == 3       \* scopes pushed directly on a LocalStack
MaxOps == 5         \* LocalStack operations applied directly
MaxToks == 3        \* length of the exhaustively enumerated token sequences
MaxHeap == 12       \* cells allocated on one VM
MaxText == 3        \* length of the exhaustively enumerated source texts
MaxCalls == 7       \* calls of Lexer::next on one lexer

(***************************************************************************)
(* Values (value.rs).  Every value carries all payload fields so that any  *)
(* two values are comparable; t is the enum discriminant.  A String, an    *)
(* Array and a Map hold a Handle (handle.rs): h is the index of its cell   *)
(* in heap, and cloning the value copies h, not the cell.                  *)
(***************************************************************************)
Nil == [t |-> "Nil", n |-> 0, b |-> FALSE, h |-> 0, f |-> <<>>]
Number(n) == [t |-> "Number", n |-> n, b |-> FALSE, h |-> 0, f |-> <<>>]
Bool(b) == [t |-> "Bool", n |-> 0, b |-> b, h |-> 0, f |-> <<>>]
String(h) == [t |-> "String", n |-> 0, b |-> FALSE, h |-> h, f |-> <<>>]
Array(h) == [t |-> "Array", n |-> 0, b |-> FALSE, h |-> h, f |-> <<>>]
Map(h) == [t |-> "Map", n |-> 0, b |-> FALSE, h |-> h, f |-> <<>>]
\* A user function: id stands for the address of the Rc allocation.
Function(id, params, ast) ==
    [t |-> "Function", n |-> 0, b |-> FALSE, h |-> 0,
     f |-> <<[id |-> id, params |-> params, ast |-> ast]>>]

\* The cell of a Handle<String>, a Handle<Vec<Value>> and a
\* Handle<HashMap<Value, Value>> (a sequence of entries [key, val]).
StringCell(s) == [s |-> s, a |-> <<>>, m |-> <<>>]
ArrayCell(a) == [s |-> "", a |-> a, m |-> <<>>]
MapCell(m) == [s |-> "", a |-> <<>>, m |-> m]

\* Handle::new(x) on the cells hp: the cells afterwards; the new handle is
\* the index of the last one
HandleNew(hp, x) == Append(hp, x)

truthy(v) ==
    CASE v.t = "Bool" -> v.b
      [] v.t = "Nil" -> FALSE
      [] OTHER -> TRUE

\* impl PartialEq for Value; a Handle is equal to another when the cells
\* are (derive(PartialEq) on Handle)
RECURSIVE ValueEq(_, _)
ValueEq(a, b) ==
    CASE a.t = "Number" /\ b.t = "Number" -> a.n = b.n
      [] a.t = "String" /\ b.t = "String" -> heap[a.h].s = heap[b.h].s
      [] a.t = "Bool" /\ b.t = "Bool" -> a.b = b.b
      [] a.t = "Array" /\ b.t = "Array" ->
            /\ Len(heap[a.h].a) = Len(heap[b.h].a)
            /\ \A i \in 1..Len(heap[a.h].a) : ValueEq(heap[a.h].a[i], heap[b.h].a[i])
      [] a.t = "Function" /\ b.t = "Function" -> a.f[1].id = b.f[1].id
      [] OTHER -> a.t = b.t

\* no Lexer has been made
NoLexer == [source |-> <<>>, at |-> 0, tok_start |-> 0, out |-> <<>>, hung |-> FALSE]

(***************************************************************************)
(* Result<Value, RuntimeError>; NoRet: no activation has just returned.    *)
(***************************************************************************)
NoRet == [st |-> "none", v |-> Nil, e |-> ""]
Ok(v) == [st |-> "Ok", v |-> v, e |-> ""]
Err(e) == [st |-> "Err", v |-> Nil, e |-> e]

(***************************************************************************)
(* AST nodes (fe/ast.rs as used by executor.rs).  Option<T> is a sequence  *)
(* of length 0 or 1.                                                       *)
(***************************************************************************)
None == <<>>
Some(x) == <<x>>

Call(func, args) == [k |-> "Call", func |-> func, args |-> args]
Value(v) == [k |-> "Value", v |-> v]
Ident(n) == [k |-> "Ident", n |-> n]
Assign(n, e) == [k |-> "Assign", n |-> n, e |-> e]
Binary(op, a, b) == [k |-> "Binary", op |-> op, a |-> a, b |-> b]
Unary(op, a) == [k |-> "Unary", op |-> op, a |-> a]
If(cond, then, or) == [k |-> "If", cond |-> cond, then |-> then, or |-> or]
Block(stmts, scoped) == [k |-> "Block", stmts |-> stmts, scoped |-> scoped]
Loop(label, cond, run) == [k |-> "Loop", label |-> label, cond |-> cond, run |-> run]
Break(label) == [k |-> "Break", label |-> label]
Error == [k |-> "Error"]

(***************************************************************************)
(* ExitFlag                                                                *)
(***************************************************************************)
Continue == [k |-> "Continue", label |-> None]
BreakFlag(label) == [k |-> "Break", label |-> label]

(***************************************************************************)
(* LocalStack (executor.rs).  A binding is [name, val].                    *)
(***************************************************************************)
Max(S) == CHOOSE x \in S : \A y \in S : y <= x

\* the index the reverse scans of get / exists / set stop at, 0 if none
LastIndex(ls, key) ==
    LET hits == {i \in 1..Len(ls) : ls[i].name = key}
    IN  IF hits = {} THEN 0 ELSE Max(hits)

get(ls, key) ==
    IF LastIndex(ls, key) = 0 THEN Nil ELSE ls[LastIndex(ls, key)].val

exists(ls, key) == LastIndex(ls, key) # 0

\* a push that records a marker one past the bindings
push_past(ms, ls) == Append(ms, Len(ls) + 1)

\* markers after push
push(ms, ls) == Append(ms, Len(ls))

\* a pop that drops the marker and leaves the bindings
pop_keep(ms, ls) == ls

\* locals after pop: every index from the popped marker on is removed
pop(ms, ls) ==
    LET p == ms[Len(ms)]
    IN  IF p < Len(ls) THEN SubSeq(ls, 1, p) ELSE ls

\* a set that never looks for an existing binding
set_push(ls, name, val) == Append(ls, [name |-> name, val |-> val])

set(ls, name, val) ==
    LET idx == LastIndex(ls, name)
    IN  IF idx # 0
        THEN [ls EXCEPT ![idx] = [name |-> ls[idx].name, val |-> val]]
        ELSE Append(ls, [name |-> name, val |-> val])

(***************************************************************************)
(* Operators of VM::execute (AstNode::Binary, AstNode::Unary)              *)
(***************************************************************************)
\* impl Hash for Value: what is fed to the hasher after the discriminant.
\* Two values have the same hash when their HashOf agree (collisions of the
\* 64-bit hash aside).
HashOf(v) ==
    CASE v.t = "Number" -> [t |-> v.t, n |-> v.n, s |-> "", b |-> FALSE]
      [] v.t = "String" -> [t |-> v.t, n |-> 0, s |-> heap[v.h].s, b |-> FALSE]
      [] v.t = "Bool" -> [t |-> v.t, n |-> 0, s |-> "", b |-> v.b]
      [] v.t \in {"Array", "Map"} -> [t |-> v.t, n |-> v.h, s |-> "", b |-> FALSE]
      [] v.t = "Function" -> [t |-> v.t, n |-> v.f[1].id, s |-> "", b |-> FALSE]
      [] OTHER -> [t |-> v.t, n |-> 0, s |-> "", b |-> FALSE]

\* HashMap::get on the entries m: the entry with the hash of key that is
\* equal to key
MapGet(m, key) ==
    LET hits == {i \in 1..Len(m) : HashOf(m[i].key) = HashOf(key) /\ ValueEq(m[i].key, key)}
    IN  IF hits = {} THEN None ELSE Some(m[CHOOSE i \in hits : TRUE].val)

num(v) == IF v.t = "Number" THEN Ok(v) ELSE Err("NotANumber")

\* Numbers are f64 in the source and small integers here: an arithmetic
\* step is inside the model only if its result is an integer of magnitude
\* at most MaxNum; division, power and remainder of two numbers are outside.
InRange(n) == n \in (0 - MaxNum)..MaxNum

Arith(op, x, y) ==
    CASE op = "Add" -> x + y
      [] op = "Sub" -> x - y
      [] op = "Mul" -> x * y
      [] OTHER -> 0 - MaxNum - 1

num_op(op, a, b) ==
    IF num(a).st = "Err" THEN num(a)
    ELSE IF num(b).st = "Err" THEN num(b)
    ELSE Ok(Number(Arith(op, a.n, b.n)))

Compare(op, x, y) ==
    CASE op = "Gt" -> x > y
      [] op = "GtEq" -> x >= y
      [] op = "Lt" -> x < y
      [] OTHER -> x <= y

\* BinOp::Add on a left value that is changed in place and returned
AddInPlace(a, b) ==
    CASE a.t = "Array" /\ b.t = "Array" ->
            [r |-> Ok(a), heap |-> [heap EXCEPT ![a.h].a = @ \o heap[b.h].a]]
      [] a.t = "String" /\ b.t = "String" ->
            [r |-> Ok(a), heap |-> [heap EXCEPT ![a.h].s = @ \o heap[b.h].s]]
      [] a.t = "Number" /\ b.t = "Number" -> [r |-> Ok(Number(a.n + b.n)), heap |-> heap]
      [] OTHER -> [r |-> Err("CannotAdd"), heap |-> heap]

\* BinOp::Add: the result and the cells afterwards
Add(a, b) ==
    CASE a.t = "Array" /\ b.t = "Array" ->
            [r |-> Ok(Array(Len(heap) + 1)),
             heap |-> HandleNew(heap, ArrayCell(heap[a.h].a \o heap[b.h].a))]
      [] a.t = "String" /\ b.t = "String" ->
            [r |-> Ok(String(Len(heap) + 1)),
             heap |-> HandleNew(heap, StringCell(heap[a.h].s \o heap[b.h].s))]
      [] a.t = "Number" /\ b.t = "Number" -> [r |-> Ok(Number(a.n + b.n)), heap |-> heap]
      [] OTHER -> [r |-> Err("CannotAdd"), heap |-> heap]

\* an Access that reports a missing key as an error
AccessStrict(a, b) ==
    IF a.t # "Map" \/ MapGet(heap[a.h].m, b) = None THEN Err("NotAMap")
    ELSE Ok(MapGet(heap[a.h].m, b)[1])

\* BinOp::Access: a.map()?, then map.get(&b)
Access(a, b) ==
    IF a.t # "Map" THEN Err("NotAMap")
    ELSE IF MapGet(heap[a.h].m, b) = None THEN Ok(Nil)
    ELSE Ok(MapGet(heap[a.h].m, b)[1])

BinOpResult(op, a, b) ==
    CASE op = "Add" -> Add(a, b).r
      [] op \in {"Sub", "Mul", "Div", "Pow", "Mod"} -> num_op(op, a, b)
      [] op = "Eq" -> Ok(Bool(ValueEq(a, b)))
      [] op \in {"Gt", "GtEq", "Lt", "LtEq"} ->
            IF num(a).st = "Err" THEN num(a)
            ELSE IF num(b).st = "Err" THEN num(b)
            ELSE Ok(Bool(Compare(op, a.n, b.n)))
      [] op = "And" -> Ok(Bool(truthy(a) /\ truthy(b)))
      [] op = "Or" -> Ok(Bool(truthy(a) \/ truthy(b)))
      [] OTHER -> Access(a, b)

UnOpResult(op, a) ==
    IF op = "Not" THEN Ok(Bool(~truthy(a)))
    ELSE IF num(a).st = "Err" THEN num(a) ELSE Ok(Number(0 - a.n))

ResultInRange(r) ==
    /\ r.st = "Ok" /\ r.v.t = "Number" => InRange(r.v.n)
    /\ r.st = "Ok" /\ r.v.h > Len(heap) => Len(heap) < MaxHeap

(***************************************************************************)
(* Activations.  pc is the position inside the arm of execute, vals the    *)
(* values the arm holds in local variables.  m0 (the number of scope       *)
(* markers when the activation began) and saw (a Break aimed at this Loop  *)
(* was evaluated in its current iteration) are history only, and so is l0  *)
(* (the bindings when the activation began).                               *)
(***************************************************************************)
NewFrame(node, ms, ls) ==
    [node |-> node, pc |-> 0, vals |-> <<>>, m0 |-> Len(ms), saw |-> FALSE, l0 |-> ls]

Top == kont[Len(kont)]
Front(s) == SubSeq(s, 1, Len(s) - 1)

\* the pseudo node of an activation of Function::call
FnCall(fn, vals) == [k |-> "FnCall", fn |-> fn, vals |-> vals]

(***************************************************************************)
(* A step of the top activation is described by a transition: what        *)
(* happens to the activation (it returns, calls execute on a child, or    *)
(* goes on), and the state it leaves.                                      *)
(***************************************************************************)
Tr(act, frame, child, r) ==
    [act |-> act, frame |-> frame, child |-> child, ret |-> r,
     markers |-> markers, locals |-> locals, flag |-> exit_flag,
     heap |-> heap, panic |-> "", inb |-> TRUE]

Return(r) == Tr("ret", Top, Error, r)
Enter(frame, child) == Tr("enter", frame, child, NoRet)
Stay(frame) == Tr("stay", frame, Error, NoRet)
Panic(msg) == [Tr("stay", Top, Error, NoRet) EXCEPT !.panic = msg]

\* self.locals.pop() followed by returning r
PopReturn(r) ==
    IF markers = <<>> THEN Panic("popped nonexistant scope")
    ELSE [Return(r) EXCEPT !.markers = Front(markers),
                            !.locals = pop(markers, locals)]

(***************************************************************************)
(* The arms of VM::execute.  f is the activation, r the result of the     *)
(* recursive call it was waiting for.                                      *)
(***************************************************************************)
ValueStep(f, r) == Return(Ok(f.node.v))

IdentStep(f, r) == Return(Ok(get(locals, f.node.n)))

AssignStep(f, r) ==
    IF f.pc = 0 THEN Enter([f EXCEPT !.pc = 1], f.node.e)
    ELSE IF r.st = "Err" THEN Return(r)
    ELSE [Return(Ok(Nil)) EXCEPT !.locals = set(locals, f.node.n, r.v)]

\* And/Or that stop after a left operand that decides the result
BinaryLhsShortCircuit(f, r) ==
    IF r.st = "Err" THEN Return(r)
    ELSE IF f.node.op = "And" /\ ~truthy(r.v) THEN Return(Ok(Bool(FALSE)))
    ELSE IF f.node.op = "Or" /\ truthy(r.v) THEN Return(Ok(Bool(TRUE)))
    ELSE Enter([f EXCEPT !.pc = 2, !.vals = <<r.v>>], f.node.b)

\* let a = self.execute(a)?; then let b = self.execute(b)?
BinaryLhs(f, r) ==
    IF r.st = "Err" THEN Return(r)
    ELSE Enter([f EXCEPT !.pc = 2, !.vals = <<r.v>>], f.node.b)

BinaryStep(f, r) ==
    CASE f.pc = 0 -> Enter([f EXCEPT !.pc = 1], f.node.a)
      [] f.pc = 1 -> BinaryLhs(f, r)
      [] OTHER ->
            IF r.st = "Err" THEN Return(r)
            ELSE [Return(BinOpResult(f.node.op, f.vals[1], r.v))
                    EXCEPT !.inb = ResultInRange(BinOpResult(f.node.op, f.vals[1], r.v)),
                           !.heap = IF f.node.op = "Add" THEN Add(f.vals[1], r.v).heap
                                    ELSE heap]

UnaryStep(f, r) ==
    IF f.pc = 0 THEN Enter([f EXCEPT !.pc = 1], f.node.a)
    ELSE IF r.st = "Err" THEN Return(r)
    ELSE Return(UnOpResult(f.node.op, r.v))

IfStep(f, r) ==
    CASE f.pc = 0 -> Enter([f EXCEPT !.pc = 1], f.node.cond)
      [] f.pc = 1 ->
            IF r.st = "Err" THEN Return(r)
            ELSE IF truthy(r.v) THEN Enter([f EXCEPT !.pc = 2], f.node.then)
            ELSE IF f.node.or # None THEN Enter([f EXCEPT !.pc = 2], f.node.or[1])
            ELSE Return(Ok(Nil))
      [] OTHER -> Return(r)

\* the end of a Block: pop the scope if scoped, return out
BlockEnd(f, out) ==
    IF f.node.scoped THEN PopReturn(Ok(out)) ELSE Return(Ok(out))

\* a Block that stops running its statements once exit_flag is a Break
BlockStepInterrupted(f, r) ==
    IF f.pc = 0
    THEN LET ms == IF f.node.scoped THEN push(markers, locals) ELSE markers
         IN  IF f.node.stmts = <<>>
             THEN [Return(Ok(Nil)) EXCEPT !.locals =
                        IF f.node.scoped THEN pop(ms, locals) ELSE locals]
             ELSE [Enter([f EXCEPT !.pc = 1], f.node.stmts[1]) EXCEPT !.markers = ms]
    ELSE IF r.st = "Err" THEN Return(r)
    ELSE IF f.pc < Len(f.node.stmts) /\ exit_flag.k # "Break"
         THEN Enter([f EXCEPT !.pc = f.pc + 1], f.node.stmts[f.pc + 1])
         ELSE BlockEnd(f, r.v)

BlockStep(f, r) ==
    IF f.pc = 0
    THEN LET ms == IF f.node.scoped THEN push(markers, locals) ELSE markers
         IN  IF f.node.stmts = <<>>
             THEN [Return(Ok(Nil)) EXCEPT !.locals =
                        IF f.node.scoped THEN pop(ms, locals) ELSE locals]
             ELSE [Enter([f EXCEPT !.pc = 1], f.node.stmts[1]) EXCEPT !.markers = ms]
    ELSE IF r.st = "Err" THEN Return(r)          \* out = self.execute(x)?
    ELSE IF f.pc < Len(f.node.stmts)
         THEN Enter([f EXCEPT !.pc = f.pc + 1], f.node.stmts[f.pc + 1])
         ELSE BlockEnd(f, r.v)

\* should_break, executor.rs 217-222
ShouldBreak(label, flag) ==
    /\ flag.k = "Break"
    /\ IF label # None /\ flag.label # None
       THEN label[1] = flag.label[1]
       ELSE TRUE

LoopStep(f, r) ==
    CASE f.pc = 0 ->
            IF ShouldBreak(f.node.label, exit_flag)
            THEN [Return(Ok(Nil)) EXCEPT !.flag = Continue]
            ELSE IF f.node.cond # None
                 THEN Enter([f EXCEPT !.pc = 1, !.saw = FALSE], f.node.cond[1])
                 ELSE Enter([f EXCEPT !.pc = 2, !.saw = FALSE], f.node.run)
      [] f.pc = 1 ->
            IF r.st = "Err" THEN Return(r)
            ELSE IF truthy(r.v) THEN Enter([f EXCEPT !.pc = 2], f.node.run)
            ELSE Stay([f EXCEPT !.pc = 0])
      [] OTHER ->
            IF r.st = "Err" THEN Return(r) ELSE Stay([f EXCEPT !.pc = 0])

BreakStep(f, r) == [Return(Ok(Nil)) EXCEPT !.flag = BreakFlag(f.node.label)]

\* the native function corelib::run, as register_stdlib wraps it in a Value
NativeRun == Function(0, <<>>, [k |-> "corelib::run"])

\* func.func()?.call(self, vargs)? once callee and arguments are evaluated
CallInvoke(f, vals) ==
    IF vals[1].t # "Function" THEN Return(Err("NotAFunction"))
    ELSE IF vals[1] = NativeRun
    THEN Enter([f EXCEPT !.pc = 0 - 1, !.vals = vals],
               [k |-> "RunCall", vals |-> Tail(vals)])
    ELSE Enter([f EXCEPT !.pc = 0 - 1, !.vals = vals], FnCall(vals[1].f[1], Tail(vals)))

\* a Call that narrows the callee before it evaluates the arguments
CallStepNarrowFirst(f, r) ==
    CASE f.pc = 0 -> Enter([f EXCEPT !.pc = 1], f.node.func)
      [] f.pc = 0 - 1 -> Return(r)
      [] OTHER ->
            IF r.st = "Err" THEN Return(r)
            ELSE IF f.pc = 1 /\ r.v.t # "Function" THEN Return(Err("NotAFunction"))
            ELSE IF f.pc <= Len(f.node.args)
                 THEN Enter([f EXCEPT !.pc = f.pc + 1, !.vals = Append(f.vals, r.v)],
                            f.node.args[f.pc])
                 ELSE CallInvoke(f, Append(f.vals, r.v))

\* pc = 1: the callee has returned; pc = 1 + i: argument i has returned
CallStep(f, r) ==
    CASE f.pc = 0 -> Enter([f EXCEPT !.pc = 1], f.node.func)
      [] f.pc = 0 - 1 -> Return(r)
      [] OTHER ->
            IF r.st = "Err" THEN Return(r)
            ELSE IF f.pc <= Len(f.node.args)
                 THEN Enter([f EXCEPT !.pc = f.pc + 1, !.vals = Append(f.vals, r.v)],
                            f.node.args[f.pc])
                 ELSE CallInvoke(f, Append(f.vals, r.v))

RECURSIVE BindParams(_, _, _)
BindParams(ls, params, vals) ==
    IF params = <<>> THEN ls
    ELSE BindParams(set(ls, params[1], vals[1]), Tail(params), Tail(vals))

\* impl Callable for Function: call
FunctionCall(f, r) ==
    IF f.pc = 0
    THEN IF Len(f.node.vals) # Len(f.node.fn.params)
         THEN [Return(Err("IncorrectNumberOfArgs"))
                 EXCEPT !.markers = push(markers, locals)]
         ELSE [Enter([f EXCEPT !.pc = 1], f.node.fn.ast)
                 EXCEPT !.markers = push(markers, locals),
                        !.locals = BindParams(locals, f.node.fn.params, f.node.vals)]
    ELSE PopReturn(r)

\* corelib::run.  file is what reading and parsing the named file gives: the
\* file is missing, it has diagnostics, or it is a program.
RunStep(f, r, file) ==
    IF f.pc = 0
    THEN IF Len(f.node.vals) # 1 THEN Return(Err("IncorrectNumberOfArgs"))
         ELSE IF f.node.vals[1].t # "String" THEN Return(Err("NotAString"))
         ELSE IF file.k = "Missing" THEN Panic("failed to load file")
         ELSE IF file.k = "Diagnostics" THEN Return(Ok(Bool(FALSE)))
         ELSE [Enter([f EXCEPT !.pc = 1], file) EXCEPT !.markers = push(markers, locals)]
    ELSE IF r.st = "Err" THEN Return(r)            \* vm.execute(&prog)?
    ELSE PopReturn(Ok(Bool(FALSE)))

ErrorStep(f, r) == Panic("running poorly compiled code, encountered Error node.")

(***************************************************************************)
(* Applying a transition of the top activation.                           *)
(***************************************************************************)
EvNone ==
    [act |-> "none", node |-> Error, pc |-> 0, m0 |-> 0, vals |-> <<>>,
     saw |-> FALSE, ret0 |-> NoRet, flag0 |-> Continue, locals0 |-> <<>>,
     markers0 |-> <<>>, heap0 |-> <<>>, depth |-> 0, l0 |-> <<>>]

EvOf(act, f) ==
    [act |-> act, node |-> f.node, pc |-> f.pc, m0 |-> f.m0, vals |-> f.vals,
     saw |-> f.saw, ret0 |-> ret, flag0 |-> exit_flag, locals0 |-> locals,
     markers0 |-> markers, heap0 |-> heap, depth |-> Len(kont), l0 |-> f.l0]

ProbeNone == [op |-> "none", name |-> "", val |-> Nil, before |-> <<>>, bound |-> FALSE,
              pre |-> Nil, n |-> 0]

\* history: a Break is aimed at the nearest Loop around it that it matches
\* (no label: any Loop; a label: a Loop with that label), inside the
\* function body being run
RECURSIVE MarkLoop(_, _)
MarkLoop(k, label) ==
    IF k = <<>> THEN k
    ELSE LET f == k[Len(k)]
         IN  IF f.node.k = "FnCall" THEN k
             ELSE IF f.node.k = "Loop" /\ (label = None \/ f.node.label = label)
                  THEN Append(Front(k), [f EXCEPT !.saw = TRUE])
                  ELSE Append(MarkLoop(Front(k), label), f)

Apply(t) ==
    /\ t.inb
    /\ panic' = t.panic
    /\ ev' = EvOf(IF t.panic # "" THEN "panic" ELSE t.act, Top)
    /\ UNCHANGED <<runs, source, parsed, probe, lexer>>
    /\ IF t.panic # ""
       THEN UNCHANGED <<markers, locals, exit_flag, kont, ret, heap>>
       ELSE /\ markers' = t.markers
            /\ heap' = t.heap
            /\ locals' = t.locals
            /\ exit_flag' = t.flag
            /\ ret' = t.ret
            /\ kont' = CASE t.act = "ret" ->
                              IF Top.node.k = "Break"
                              THEN MarkLoop(Front(kont), Top.node.label)
                              ELSE Front(kont)
                         [] t.act = "enter" ->
                              Append(Append(Front(kont), t.frame),
                                     NewFrame(t.child, t.markers, t.locals))
                         [] OTHER -> Append(Front(kont), t.frame)

Running(kind) == panic = "" /\ kont # <<>> /\ Top.node.k = kind

ExecValue == Running("Value") /\ Apply(ValueStep(Top, ret))
ExecIdent == Running("Ident") /\ Apply(IdentStep(Top, ret))
ExecAssign == Running("Assign") /\ Apply(AssignStep(Top, ret))
ExecBinary == Running("Binary") /\ Apply(BinaryStep(Top, ret))
ExecUnary == Running("Unary") /\ Apply(UnaryStep(Top, ret))
ExecIf == Running("If") /\ Apply(IfStep(Top, ret))
ExecBlock == Running("Block") /\ Apply(BlockStep(Top, ret))
ExecLoop == Running("Loop") /\ Apply(LoopStep(Top, ret))
ExecBreak == Running("Break") /\ Apply(BreakStep(Top, ret))
ExecCall == Running("Call") /\ Apply(CallStep(Top, ret))
CallFunction == Running("FnCall") /\ Apply(FunctionCall(Top, ret))

\* what corelib::run may find in the file it is told to run
Files ==
    {[k |-> "Missing"], [k |-> "Diagnostics"],
     Assign("x", Value(Number(1))), Break(None),
     Block(<<Assign("y", Value(Number(2)))>>, TRUE),
     Block(<<Unary("Sub", Value(Nil))>>, TRUE)}

CallRun == Running("RunCall") /\ \E file \in Files : Apply(RunStep(Top, ret, file))

(***************************************************************************)
(* The programs handed to VM::execute.  execute is public and takes any    *)
(* AstNode, so labels and loop conditions occur although the parser never  *)
(* produces them.                                                          *)
(***************************************************************************)
Names == {"x", "y"}
Labels == {None, Some("a"), Some("b")}

N(n) == Value(Number(n))
True == Value(Bool(TRUE))
False == Value(Bool(FALSE))
Fail == Binary("Add", Value(Nil), N(1))             \* nil + 1: CannotAdd
Incr(n) == Assign(n, Binary("Add", Ident(n), N(1)))   \* n = n + 1

\* func(a) { a }, func() { nil + 1 }, func(x) { y = x }
FnId == Function(1, <<"a">>, Block(<<Ident("a")>>, TRUE))
FnFail == Function(2, <<>>, Block(<<Fail>>, TRUE))
FnSetY == Function(3, <<"x">>, Block(<<Assign("y", Ident("x"))>>, TRUE))

Stmts ==
    {Assign("x", N(1)), Fail, Ident("x"),
     Block(<<Assign("y", N(2))>>, TRUE), Block(<<Fail>>, TRUE)}

BlockPrograms ==
    {Block(ss, sc) : ss \in {<<>>} \cup {<<a>> : a \in Stmts}
                                  \cup {<<a, b>> : a \in Stmts, b \in Stmts},
                     sc \in BOOLEAN}

LogicPrograms ==
    {Binary(op, a, b) : op \in {"And", "Or"},
                        a \in {True, False, N(1), Fail},
                        b \in {Assign("y", N(1)), Break(None), True, Value(Nil), Fail}}

Callees ==
    {Value(FnId), Value(FnFail), Value(FnSetY), N(1), Ident("f"), Fail,
     Block(<<Assign("x", N(1)), Value(FnId)>>, FALSE)}

ArgLists ==
    {<<>>, <<N(1)>>, <<Assign("x", N(2))>>, <<Assign("x", N(2)), Assign("x", N(3))>>,
     <<Fail>>, <<Assign("y", N(1)), Fail>>, <<N(1), N(2)>>}

\* func(n) { if n == 0 { 0 } else { f(n - 1) n } }
FnRec ==
    Function(4, <<"n">>,
             Block(<<If(Binary("Eq", Ident("n"), N(0)),
                        Block(<<N(0)>>, TRUE),
                        Some(Block(<<Call(Ident("f"), <<Binary("Sub", Ident("n"), N(1))>>),
                                     Ident("n")>>, TRUE)))>>, TRUE))

\* calls whose parameter has the name of a binding there is at the call,
\* and calls whose parameter has another name
ShadowPrograms ==
    {Block(<<Assign(x, N(1)), Call(Value(FnId), <<N(2)>>), Ident(x)>>, FALSE) :
         x \in {"a", "b"}}
        \cup {Block(<<Assign("f", Value(FnRec)), Call(Ident("f"), <<N(k)>>)>>, FALSE) :
                  k \in 0..1}

CallPrograms ==
    {Call(c, args) : c \in Callees, args \in ArgLists}
        \cup {Call(Value(NativeRun), args) :
                  args \in {<<>>, <<Value(String(1))>>, <<N(1)>>, <<N(1), N(2)>>}}
        \cup {Block(<<Assign("y", N(1)), Call(Value(NativeRun), <<Value(String(1))>>)>>,
                    TRUE)}
        \cup {Assign("f", Value(FnId)), Assign("f", Value(FnSetY))}
        \cup ShadowPrograms

\* loop { loop { break } } under every labelling
NestedLoop(l1, l2, l3) ==
    Loop(l1, None, Block(<<Loop(l2, None, Block(<<Break(l3)>>, TRUE))>>, TRUE))

\* x = 0; loop { x = x + 1; if x == k { break } }
CondBreakLoop(k) ==
    Loop(None, None,
         Block(<<Incr("x"),
                 If(Binary("Eq", Ident("x"), N(k)), Block(<<Break(None)>>, TRUE), None)>>,
               TRUE))
CondBreak(k) == Block(<<Assign("x", N(0)), CondBreakLoop(k)>>, FALSE)

\* x = 0; a loop whose condition is { x = x + 1; x == k } and whose body breaks
GuardedLoop(k) ==
    Block(<<Assign("x", N(0)),
            Loop(None, Some(Block(<<Incr("x"), Binary("Eq", Ident("x"), N(k))>>, FALSE)),
                 Block(<<Break(None)>>, TRUE))>>, FALSE)

\* loop { break; loop { } }
BreakThenLoop == Loop(None, None, Block(<<Break(None), Loop(None, None, Block(<<>>, TRUE))>>, TRUE))

LoopPrograms ==
    {NestedLoop(l1, l2, l3) : l1 \in Labels, l2 \in Labels, l3 \in Labels}
        \cup {Loop(l1, None, Block(<<Break(l3)>>, TRUE)) : l1 \in Labels, l3 \in Labels}
        \cup {CondBreak(k) : k \in 1..MaxNum - 1}
        \cup {GuardedLoop(k) : k \in 1..MaxNum - 1}
        \cup {Loop(None, None,
                   Block(<<Block(<<Break(None), Assign("x", N(k))>>, sc),
                           Assign("y", Ident("x"))>>, FALSE)) :
                  k \in 1..2, sc \in BOOLEAN}
        \cup {BreakThenLoop,
              Loop(None, Some(False), Block(<<Break(None)>>, TRUE)),
              Loop(None, Some(Fail), Block(<<Break(None)>>, TRUE)),
              Loop(None, None, Block(<<Fail>>, TRUE)),
              Break(None), Break(Some("a")),
              Unary("Not", Ident("x")), Unary("Sub", Ident("x"))}

\* The cells the host allocated for the compound literals of the programs:
\* "a", "b", [1], [2], [], a second "a", the map {"a": 1, 2: "b"}
InitHeap ==
    <<StringCell("a"), StringCell("b"), ArrayCell(<<Number(1)>>),
      ArrayCell(<<Number(2)>>), ArrayCell(<<>>), StringCell("a"),
      MapCell(<<[key |-> String(6), val |-> Number(1)],
                [key |-> Number(2), val |-> String(2)]>>)>>

StrA == Value(String(1))
StrB == Value(String(2))
Arr1 == Value(Array(3))
Arr2 == Value(Array(4))
ArrE == Value(Array(5))
StrA2 == Value(String(6))
MapM == Value(Map(7))

Plus(a, b) == Binary("Add", a, b)

AddOperands == {StrA, StrB, Arr1, MapM, N(1), Value(Nil)}

\* a + b, (a + b) + c == a + (b + c), a + b == b + a, and
\* x = a; y = x + b; x == a
AddPrograms ==
    {Plus(a, b) : a \in AddOperands, b \in AddOperands}
        \cup {Binary("Eq", Plus(Plus(a, b), c), Plus(a, Plus(b, c))) :
                  a \in {StrA, StrB}, b \in {StrA}, c \in {StrB}}
        \cup {Binary("Eq", Plus(Plus(a, b), c), Plus(a, Plus(b, c))) :
                  a \in {Arr1, ArrE}, b \in {Arr1}, c \in {Arr2}}
        \cup {Binary("Eq", Plus(a, b), Plus(b, a)) : a \in {StrA}, b \in {StrA2, StrB}}
        \cup {Block(<<Assign("x", a), Assign("y", Plus(Ident("x"), b)),
                      Binary("Eq", Ident("x"), c)>>, FALSE) :
                  a \in {StrA}, b \in {StrB}, c \in {StrA2}}
        \cup {Block(<<Assign("x", a), Assign("y", Plus(Ident("x"), b)),
                      Binary("Eq", Ident("x"), c)>>, FALSE) :
                  a \in {Arr1}, b \in {Arr2}, c \in {Arr1}}

\* m.k for a map and for other values, with keys present and missing
AccessPrograms ==
    {Binary("Access", m, k) : m \in {MapM, Ident("m"), N(1), StrA, Arr1, Fail},
                              k \in {StrA, StrB, N(2), N(1), Value(Nil), Fail}}
        \cup {Block(<<Assign("x", MapM), Binary("Access", Ident("x"), StrB)>>, FALSE)}

Programs ==
    BlockPrograms \cup LogicPrograms \cup CallPrograms \cup LoopPrograms
        \cup AddPrograms \cup AccessPrograms

(***************************************************************************)
(* One VM: VM::new(), then top-level calls of execute, one after another   *)
(* on the same VM (repl::run).                                             *)
(***************************************************************************)
Init ==
    /\ markers = <<>>
    /\ locals = <<>>
    /\ exit_flag = Continue
    /\ kont = <<>>
    /\ ret = NoRet
    /\ panic = ""
    /\ runs = 0
    /\ ev = EvNone
    /\ source = <<>>
    /\ parsed = <<>>
    /\ probe = ProbeNone
    /\ heap = InitHeap
    /\ lexer = NoLexer

\* the caller of the VM starts vm.execute(&prog)
TopExecute ==
    /\ panic = "" /\ kont = <<>> /\ runs < MaxRuns
    /\ \E p \in Programs : kont' = <<NewFrame(p, markers, locals)>>
    /\ ret' = NoRet
    /\ runs' = runs + 1
    /\ ev' = EvNone
    /\ UNCHANGED <<markers, locals, exit_flag, panic, source, parsed, probe, heap, lexer>>

Next ==
    \/ TopExecute
    \/ ExecValue \/ ExecIdent \/ ExecAssign \/ ExecBinary \/ ExecUnary
    \/ ExecIf \/ ExecBlock \/ ExecLoop \/ ExecBreak \/ ExecCall
    \/ CallFunction \/ CallRun

Spec == Init /\ [][Next]_vars

(***************************************************************************)
(* LocalStack used directly: LocalStack::new(), then any sequence of       *)
(* push, pop and set.  probe records the last operation, and recognises    *)
(* the sequence push(); set(x, v); pop().                                  *)
(***************************************************************************)
StackValues == {Nil, Number(1), Number(2)}

ProbeOf(op, name, val) ==
    [op |-> op, name |-> name, val |-> val, before |-> locals,
     bound |-> exists(locals, name), pre |-> get(locals, name), n |-> probe.n + 1]

Push ==
    /\ panic = "" /\ probe.n < MaxOps /\ Len(markers) < MaxDepth
    /\ markers' = push(markers, locals)
    /\ probe' = ProbeOf("push", "", Nil)
    /\ UNCHANGED <<locals, exit_flag, kont, ret, panic, runs, ev, source, parsed, heap, lexer>>

Pop ==
    /\ panic = "" /\ probe.n < MaxOps
    /\ IF markers = <<>>
       THEN /\ panic' = "popped nonexistant scope"
            /\ probe' = ProbeOf("panic", "", Nil)
            /\ UNCHANGED <<markers, locals>>
       ELSE /\ markers' = Front(markers)
            /\ locals' = pop(markers, locals)
            /\ probe' = IF probe.op = "pushset"
                        THEN [probe EXCEPT !.op = "shadow", !.n = probe.n + 1]
                        ELSE ProbeOf("pop", "", Nil)
            /\ UNCHANGED panic
    /\ UNCHANGED <<exit_flag, kont, ret, runs, ev, source, parsed, heap, lexer>>

Set ==
    /\ panic = "" /\ probe.n < MaxOps
    /\ \E name \in Names, val \in StackValues :
          /\ locals' = set(locals, name, val)
          /\ probe' = ProbeOf(IF probe.op = "push" THEN "pushset" ELSE "set", name, val)
    /\ UNCHANGED <<markers, exit_flag, kont, ret, panic, runs, ev, source, parsed, heap, lexer>>

NextStack == Push \/ Pop \/ Set

SpecStack == Init /\ [][NextStack]_vars

(***************************************************************************)
(* Properties of the executor                                              *)
(***************************************************************************)
Returned(kind) == ev.act = "ret" /\ ev.node.k = kind

\* C1: when a scoped Block returns, Ok or Err, the number of scope markers
\* is the number there was when the Block was entered.
C1_ScopedBlockBalanced ==
    (Returned("Block") /\ ev.node.scoped) => Len(markers) = ev.m0

\* C2: when Function::call returns, whatever the outcome, the number of
\* scope markers is the number there was when it was called.
C2_FunctionCallBalanced ==
    Returned("FnCall") => Len(markers) = ev.m0

\* C3: a Loop that clears a labeled Break carries the same label.
C3_LabeledBreakOnlySameLabel ==
    (Returned("Loop") /\ ev.pc = 0 /\ ev.flag0.label # None)
        => ev.node.label = ev.flag0.label

\* C6: a Loop does not start an iteration once a Break aimed at it has been
\* evaluated in the iteration before.
C6_NoIterationAfterBreak ==
    (ev.node.k = "Loop" /\ ev.pc = 0 /\ ev.act = "enter") => ~ev.saw

\* C7: a Loop returns Ok only from its iteration check, on a Break that
\* matches it (no label, or the Loop's label), and then with Nil.
C7_LoopOkOnlyByMatchingBreak ==
    (Returned("Loop") /\ ret.st = "Ok")
        => /\ ev.pc = 0
           /\ ev.flag0.k = "Break"
           /\ ev.flag0.label = None \/ ev.flag0.label = ev.node.label
           /\ ret.v = Nil

IsLogic(node) == node.k = "Binary" /\ node.op \in {"And", "Or"}

\* C8: And/Or evaluate the left operand, then always the right one, and
\* yield the Bool of the conjunction/disjunction of the truthiness.
C8_NoShortCircuit ==
    /\ (IsLogic(ev.node) /\ ev.pc = 1 /\ ev.ret0.st = "Ok")
          => /\ ev.act = "enter"
             /\ Top.node = ev.node.b /\ Top.pc = 0
             /\ kont[Len(kont) - 1].vals = <<ev.ret0.v>>
    /\ (IsLogic(ev.node) /\ ev.act = "ret" /\ ret.st = "Ok")
          => /\ ev.pc = 2 /\ ev.ret0.st = "Ok"
             /\ ret.v = Bool(IF ev.node.op = "And"
                             THEN truthy(ev.vals[1]) /\ truthy(ev.ret0.v)
                             ELSE truthy(ev.vals[1]) \/ truthy(ev.ret0.v))

C8_Witness ==
    /\ ev.act = "ret" /\ ev.node = Binary("And", False, Assign("y", N(1)))
    /\ ret = Ok(Bool(FALSE))
    /\ get(locals, "y") = Number(1)

\* C9: a Call evaluates the callee, then the arguments left to right, and
\* only then narrows and invokes the callee; a user function called with a
\* wrong number of arguments returns IncorrectNumberOfArgs, binds nothing
\* and does not run its body.
C9_CallOrder ==
    /\ (ev.node.k = "Call" /\ ev.act = "enter")
          => \/ ev.pc = 0 /\ Top.node = ev.node.func
             \/ /\ ev.pc \in 1..Len(ev.node.args)
                /\ Top.node = ev.node.args[ev.pc]
                /\ Len(kont[Len(kont) - 1].vals) = ev.pc
             \/ /\ ev.pc = Len(ev.node.args) + 1
                /\ Top.node.k \in {"FnCall", "RunCall"}
                /\ Len(Top.node.vals) = Len(ev.node.args)
    /\ (Returned("Call") /\ ret = Err("NotAFunction") /\ ev.ret0.st = "Ok")
          => ev.pc = Len(ev.node.args) + 1
    /\ (ev.node.k = "FnCall" /\ ev.pc = 0
            /\ Len(ev.node.vals) # Len(ev.node.fn.params))
          => /\ ev.act = "ret" /\ ret = Err("IncorrectNumberOfArgs")
             /\ locals = ev.locals0

C9_Witness ==
    /\ ev.act = "ret" /\ ev.node = Call(N(1), <<Assign("x", N(2)), Assign("x", N(3))>>)
    /\ ret = Err("NotAFunction")
    /\ get(locals, "x") = Number(3)

\* the text, number or truth value a key stands for
KeyContent(v) ==
    CASE v.t = "String" -> [t |-> v.t, s |-> heap[v.h].s, n |-> 0, b |-> FALSE]
      [] v.t = "Number" -> [t |-> v.t, s |-> "", n |-> v.n, b |-> FALSE]
      [] v.t = "Bool" -> [t |-> v.t, s |-> "", n |-> 0, b |-> v.b]
      [] OTHER -> [t |-> v.t, s |-> "", n |-> v.h, b |-> FALSE]

HasKey(m, k) == \E i \in 1..Len(m) : KeyContent(m[i].key) = KeyContent(k)

IsAccess(node) == node.k = "Binary" /\ node.op = "Access"

\* C15: an Ident never fails, and one that is bound nowhere returns Nil and
\* leaves the scope stack as it was; an Access whose operands evaluated
\* returns Ok when the left one is a Map, Nil when the map has no such key,
\* and NotAMap exactly when the left one is not a Map.
C15_UnboundAndMissingAreNil ==
    /\ Returned("Ident")
          => /\ ret.st = "Ok"
             /\ ~exists(ev.locals0, ev.node.n)
                   => ret = Ok(Nil) /\ locals = ev.locals0 /\ markers = ev.markers0
    /\ (IsAccess(ev.node) /\ ev.act = "ret" /\ ev.pc = 2 /\ ev.ret0.st = "Ok")
          => /\ ev.vals[1].t = "Map"
                   => /\ ret.st = "Ok"
                      /\ ~HasKey(heap[ev.vals[1].h].m, ev.ret0.v) => ret = Ok(Nil)
             /\ ev.vals[1].t # "Map" <=> ret = Err("NotAMap")

\* m.b on the map {"a": 1, 2: "b"}
C15_Witness ==
    /\ ev.act = "ret" /\ ev.node = Binary("Access", MapM, StrB)
    /\ ev.vals = <<Map(7)>> /\ ret = Ok(Nil)

IsAdd(node) == node.k = "Binary" /\ node.op = "Add"

\* (x + y) + z == x + (y + z)
IsAssociativity(node) ==
    /\ node.k = "Binary" /\ node.op = "Eq"
    /\ IsAdd(node.a) /\ IsAdd(node.a.a)
    /\ node.b = Plus(node.a.a.a, Plus(node.a.a.b, node.a.b))

\* the cells that existed before the last step are what they were
CellsKept == \A i \in 1..Len(ev.heap0) : i <= Len(heap) /\ heap[i] = ev.heap0[i]

\* the handle was allocated by the last step
Fresh(h) == h \in (Len(ev.heap0) + 1)..Len(heap)

\* C18: Add of two arrays returns a handle allocated by the Add whose cell
\* holds the left elements followed by the right ones, Add of two strings one
\* whose cell holds the left text followed by the right one, both leave
\* every cell that existed untouched, two numbers are added, and every other
\* pairing is CannotAdd; (x + y) + z and x + (y + z) are equal whenever they
\* evaluate, and "a" + "b" differs from "b" + "a".
C18_AddDispatch ==
    /\ (IsAdd(ev.node) /\ ev.act = "ret" /\ ev.pc = 2 /\ ev.ret0.st = "Ok")
          => LET a == ev.vals[1]
                 b == ev.ret0.v
             IN  CASE a.t = "Array" /\ b.t = "Array" ->
                        /\ ret.st = "Ok" /\ ret.v.t = "Array" /\ Fresh(ret.v.h)
                        /\ heap[ret.v.h] = ArrayCell(ev.heap0[a.h].a \o ev.heap0[b.h].a)
                        /\ CellsKept
                   [] a.t = "String" /\ b.t = "String" ->
                        /\ ret.st = "Ok" /\ ret.v.t = "String" /\ Fresh(ret.v.h)
                        /\ heap[ret.v.h] = StringCell(ev.heap0[a.h].s \o ev.heap0[b.h].s)
                        /\ CellsKept
                   [] a.t = "Number" /\ b.t = "Number" ->
                        ret = Ok(Number(a.n + b.n)) /\ heap = ev.heap0
                   [] OTHER -> ret = Err("CannotAdd") /\ heap = ev.heap0
    /\ (IsAssociativity(ev.node) /\ ev.act = "ret" /\ ev.pc = 2 /\ ev.ret0.st = "Ok")
          => /\ ret = Ok(Bool(TRUE))
             /\ heap[ev.vals[1].h] = heap[ev.ret0.v.h]
    /\ (ev.act = "ret" /\ ev.node = Binary("Eq", Plus(StrA, StrB), Plus(StrB, StrA)))
          => ret = Ok(Bool(FALSE))

\* ([1] + [1]) + [2] == [1] + ([1] + [2]) has returned true
C18_Witness ==
    /\ ev.act = "ret"
    /\ ev.node = Binary("Eq", Plus(Plus(Arr1, Arr1), Arr2), Plus(Arr1, Plus(Arr1, Arr2)))
    /\ ret = Ok(Bool(TRUE))
    /\ heap[ev.vals[1].h].a = <<Number(1), Number(1), Number(2)>>
    /\ ev.vals[1].h # ev.ret0.v.h
    /\ heap[3] = ArrayCell(<<Number(1)>>) /\ heap[4] = ArrayCell(<<Number(2)>>)

\* the names a node assigns, in itself or in a function written in it
RECURSIVE Assigned(_)
Assigned(node) ==
    LET All(nodes) == UNION {Assigned(nodes[i]) : i \in 1..Len(nodes)}
    IN  CASE node.k = "Assign" -> {node.n} \cup Assigned(node.e)
          [] node.k = "Binary" -> Assigned(node.a) \cup Assigned(node.b)
          [] node.k = "Unary" -> Assigned(node.a)
          [] node.k = "If" -> Assigned(node.cond) \cup Assigned(node.then) \cup All(node.or)
          [] node.k = "Block" -> All(node.stmts)
          [] node.k = "Loop" -> All(node.cond) \cup Assigned(node.run)
          [] node.k = "Call" -> Assigned(node.func) \cup All(node.args)
          [] node.k = "Value" /\ node.v.t = "Function" -> Assigned(node.v.f[1].ast)
          [] OTHER -> {}

\* C19: when a call of a user function returns Ok, every binding there was
\* before the call whose name the body does not assign has the value it had
\* before the call, also when a parameter has the name of such a binding.
C19_CallKeepsOuterBindings ==
    (Returned("FnCall") /\ ret.st = "Ok")
        => \A i \in 1..Len(ev.l0) :
              ev.l0[i].name \notin Assigned(ev.node.fn.ast)
                  => get(locals, ev.l0[i].name) = get(ev.l0, ev.l0[i].name)

\* C21: a Break returns Nil and only sets exit_flag; a Block whose statement
\* has returned Ok while exit_flag is a Break goes on with its next statement,
\* with the flag and the bindings as the statement left them; and a Break
\* flag is taken away only by the iteration check of a Loop.
C21_BreakDoesNotInterrupt ==
    /\ Returned("Break")
          => /\ ret = Ok(Nil) /\ exit_flag = BreakFlag(ev.node.label)
             /\ locals = ev.locals0 /\ markers = ev.markers0
    /\ ( /\ ev.node.k = "Block" /\ ev.act # "none"
         /\ ev.pc \in 1..Len(ev.node.stmts) - 1
         /\ ev.ret0.st = "Ok" /\ ev.flag0.k = "Break" )
          => /\ ev.act = "enter"
             /\ Top.node = ev.node.stmts[ev.pc + 1] /\ Top.pc = 0
             /\ kont[Len(kont) - 1].pc = ev.pc + 1
             /\ exit_flag = ev.flag0 /\ locals = ev.locals0
    /\ (ev.act # "none" /\ ev.flag0.k = "Break" /\ exit_flag.k # "Break")
          => Returned("Loop") /\ ev.pc = 0

\* loop { { break  x = 1 }  y = x } has returned: both statements after the
\* Break have run
C21_Witness ==
    /\ Returned("Loop") /\ ev.pc = 0
    /\ ev.node = Loop(None, None,
                      Block(<<Block(<<Break(None), Assign("x", N(1))>>, FALSE),
                              Assign("y", Ident("x"))>>, FALSE))
    /\ ev.l0 = <<>>
    /\ get(locals, "x") = Number(1) /\ get(locals, "y") = Number(1)

\* C22: in every state the scope markers are in non-decreasing order, each
\* is at most the number of bindings, and pop has never been called with no
\* marker.
C22_MarkersOrderedAndPopSafe ==
    /\ \A i \in 1..Len(markers) : markers[i] <= Len(locals)
    /\ \A i \in 1..Len(markers) : \A j \in i..Len(markers) : markers[i] <= markers[j]
    /\ panic # "popped nonexistant scope"

\* corelib::run has popped its scope on a VM where an earlier top-level
\* execute returned an error, and markers of that execute are still there
C22_Witness ==
    /\ ev.act = "ret" /\ ev.node.k = "RunCall" /\ ev.pc = 1 /\ ret.st = "Ok"
    /\ runs = 2 /\ Len(markers) >= 2 /\ Len(locals) >= 1

\* C20: whenever no execute is running on the VM (before the first top-level
\* call and after each one has returned, Ok or Err), exit_flag is Continue.
C20_FlagContinueBetweenRuns ==
    (kont = <<>> /\ panic = "") => exit_flag = Continue

(***************************************************************************)
(* Properties of LocalStack                                                *)
(***************************************************************************)
\* C4: after push(); set(x, v); pop(), get(x) is what it was before the
\* push, whether x was bound or not.
C4_ShadowIsolation ==
    probe.op = "shadow" => get(locals, probe.name) = probe.pre

\* C4 (amended): the same for a name x that was not bound before the push.
C4_ShadowIsolationUnbound ==
    (probe.op = "shadow" /\ ~probe.bound) => get(locals, probe.name) = probe.pre

C4_Witness ==
    /\ probe.op = "shadow" /\ ~probe.bound /\ probe.val # Nil
    /\ locals # <<>> /\ markers # <<>>

NoDuplicateNames == \A i, j \in 1..Len(locals) : locals[i].name = locals[j].name => i = j

\* C5: set on a bound name replaces the value of that binding in place and
\* adds none, no two bindings ever carry the same name, and the value set
\* from an inner scope is still the one get returns after that scope is popped.
C5_SetInPlace ==
    /\ NoDuplicateNames
    /\ (probe.op \in {"set", "pushset"} /\ probe.bound)
          => /\ Len(locals) = Len(probe.before)
             /\ \A i \in 1..Len(locals) :
                   locals[i] = IF i = LastIndex(probe.before, probe.name)
                               THEN [name |-> probe.name, val |-> probe.val]
                               ELSE probe.before[i]
    /\ (probe.op = "shadow" /\ probe.bound) => get(locals, probe.name) = probe.val

\* a set, from an inner scope, of a name bound in an enclosing scope
C5_Witness ==
    /\ probe.op = "pushset" /\ probe.bound /\ probe.val # probe.pre
    /\ LastIndex(probe.before, probe.name) <= markers[Len(markers)]

(***************************************************************************)
(* Parser (fe/parse.rs).  The lexer is the token sequence source followed  *)
(* by Eof for ever; the parser's window is current = Tok(pos) and          *)
(* next = Tok(pos + 1).  Every parsing method takes the parser state ps    *)
(* and returns the node it built with the state it left.                  *)
(***************************************************************************)
Tk(kind) == [k |-> kind, s |-> "", n |-> 0]
StringTok(s) == [k |-> "String", s |-> s, n |-> 0]
Identifier(s) == [k |-> "Identifier", s |-> s, n |-> 0]
NumberTok(n) == [k |-> "Number", s |-> "", n |-> n]

Tok(i) ==
    IF i = 0 THEN Tk("Start")
    ELSE IF i <= Len(source) THEN source[i] ELSE Tk("Eof")

NONE == 0
ASSIGN == 1
OR == 2
AND == 3
EQ == 4
COMP == 5
TERM == 6
FACTOR == 7
POW == 8
UNARY == 9
CALL == 10
DOT == 11
PRIMARY == 12

\* Token::prec
prec(tok) ==
    CASE tok.k \in {"Add", "Sub"} -> TERM
      [] tok.k \in {"Mul", "Div", "Mod"} -> FACTOR
      [] tok.k = "Pow" -> POW
      [] tok.k \in {"Gt", "GtEq", "Lt", "LtEq"} -> COMP
      [] tok.k = "Eq" -> EQ
      [] tok.k = "And" -> AND
      [] tok.k = "Or" -> OR
      [] tok.k \in {"Assign", "AddEq", "SubEq", "MulEq", "DivEq", "PowEq", "ModEq"} -> ASSIGN
      [] tok.k = "LParen" -> CALL
      [] tok.k = "Dot" -> DOT
      [] OTHER -> NONE

NewParser == [pos |-> 0, errors |-> <<>>, panic |-> FALSE, heap |-> <<>>]

R(node, ps) == [node |-> node, ps |-> ps]

current(ps) == Tok(ps.pos)
next(ps) == Tok(ps.pos + 1)
advance(ps) == [ps EXCEPT !.pos = @ + 1]

\* pick: does next have the discriminant kind (the caller advances if so)
picks(ps, kind) == next(ps).k = kind

\* an error that puts the Error node in the tree and records nothing
error_silent(ps, message) == R(Error, ps)

\* Parser::error
error(ps, message) ==
    R(Error, [ps EXCEPT !.errors = Append(@, [span |-> ps.pos, message |-> message])])

literal(ps) ==
    LET c == current(ps)
    IN  IF c.k = "String"
        THEN R(Value(String(Len(ps.heap) + 1)),
               [ps EXCEPT !.heap = HandleNew(@, StringCell(c.s))])
        ELSE R(Value(CASE c.k = "Number" -> Number(c.n)
                       [] c.k = "True" -> Bool(TRUE)
                       [] c.k = "False" -> Bool(FALSE)
                       [] OTHER -> Nil), ps)

ident(ps) ==
    IF current(ps).k = "Identifier" THEN R(Ident(current(ps).s), ps)
    ELSE error(ps, "expected an identifier")

dot_expr(ps, lhs) ==
    IF next(ps).k # "Identifier" THEN error(ps, "identifier expected following .")
    ELSE R(Binary("Access", lhs, Value(String(Len(ps.heap) + 1))),
           advance([ps EXCEPT !.heap = HandleNew(@, StringCell(next(ps).s))]))

\* the BinOp of the assign macro map, None for a plain =
AssignOp(tok) ==
    CASE tok.k = "AddEq" -> Some("Add")
      [] tok.k = "SubEq" -> Some("Sub")
      [] tok.k = "MulEq" -> Some("Mul")
      [] tok.k = "DivEq" -> Some("Div")
      [] tok.k = "PowEq" -> Some("Pow")
      [] tok.k = "ModEq" -> Some("Mod")
      [] OTHER -> None

BinaryOps == {"Add", "Sub", "Mul", "Div", "Mod", "Pow", "Eq", "Gt", "GtEq",
              "Lt", "LtEq", "And", "Or"}

RECURSIVE parse_with_prec(_, _), InfixLoop(_, _, _), assign(_, _, _), binary(_, _, _),
          unary(_), CallLoop(_, _, _), func(_), FuncParams(_, _), FuncBody(_, _, _),
          if_expr(_), IfElse(_), BlockLoop(_, _, _, _), loop_expr(_)

expression(ps) == parse_with_prec(ps, ASSIGN)

statement(ps) == expression(ps)

block(ps, expect_end, scoped) == BlockLoop(ps, <<>>, expect_end, scoped)

call(ps, fn) == CallLoop(ps, fn, <<>>)

\* the loop of Parser::block, v the statements collected so far
BlockLoop(ps, v, expect_end, scoped) ==
    IF ps.panic THEN R(Error, ps)
    ELSE IF expect_end /\ picks(ps, "RBrace") THEN R(Block(v, scoped), advance(ps))
    ELSE IF picks(ps, "Eof")
         THEN IF expect_end THEN error(advance(ps), "expected closing }")
              ELSE R(Block(v, scoped), advance(ps))
    ELSE LET r == statement(ps)
         IN  BlockLoop(r.ps, Append(v, r.node), expect_end, scoped)

\* the loop of Parser::call, args the arguments collected so far
CallLoop(ps, fn, args) ==
    IF ps.panic THEN R(Error, ps)
    ELSE IF picks(ps, "RParen") THEN R(Call(fn, args), advance(ps))
    ELSE LET r == expression(ps)
         IN  IF next(r.ps).k # "RParen"
             THEN IF picks(r.ps, "Comma")
                  THEN CallLoop(advance(r.ps), fn, Append(args, r.node))
                  ELSE error(r.ps, "expected comma after expression")
             ELSE CallLoop(r.ps, fn, Append(args, r.node))

assign(ps, lhs, p) ==
    IF lhs.k # "Ident" THEN error(ps, "invalid assignment target")
    ELSE LET op == AssignOp(current(ps))
             r == parse_with_prec(ps, p)
         IN  R(Assign(lhs.n, IF op # None THEN Binary(op[1], lhs, r.node) ELSE r.node), r.ps)

binary(ps, lhs, p) ==
    IF current(ps).k \notin BinaryOps
    THEN error(ps, "no binary expression implemented")
    ELSE LET r == parse_with_prec(ps, p)
         IN  R(Binary(current(ps).k, lhs, r.node), r.ps)

unary(ps) ==
    IF current(ps).k \notin {"Not", "Sub"}
    THEN error(ps, "no unary expression implemented")
    ELSE LET r == expression(ps)
         IN  R(Unary(current(ps).k, r.node), r.ps)

\* the body of a function and the value built from it; id stands for the
\* address of the Rc<Function> allocated for this literal
FuncBody(ps, name, args) ==
    IF ~picks(ps, "LBrace")
    THEN error(ps, "expected { to open the function block")
    ELSE LET r == block(advance(ps), TRUE, TRUE)
             fn_value == Value(Function(ps.pos, args, r.node))
         IN  IF name # None
             THEN R(Block(<<Assign(name[1], fn_value), Ident(name[1])>>, FALSE), r.ps)
             ELSE R(fn_value, r.ps)

\* the parameter loop of Parser::func; assert_eq!(self.next, Token::Comma)
FuncParams(ps, st) ==
    IF picks(ps, "RParen") THEN FuncBody(advance(ps), st.name, st.args)
    ELSE LET ps1 == advance(ps)
         IN  IF current(ps1).k # "Identifier"
             THEN error(ps1, "expected identifier in argument list")
             ELSE LET st1 == [st EXCEPT !.args = Append(@, current(ps1).s)]
                  IN  IF next(ps1).k # "RParen"
                      THEN IF next(ps1) # Tk("Comma")
                           THEN R(Error, [ps1 EXCEPT !.panic = TRUE])
                           ELSE FuncParams(advance(ps1), st1)
                      ELSE FuncParams(ps1, st1)

func(ps) ==
    LET named == next(ps).k = "Identifier"
        name == IF named THEN Some(next(ps).s) ELSE None
        ps1 == IF named THEN advance(ps) ELSE ps
    IN  IF ~picks(ps1, "LParen")
        THEN error(ps1, "expected ( to start argument list")
        ELSE FuncParams(advance(ps1), [name |-> name, args |-> <<>>])

\* the else part of Parser::if_expr: the Option<Ast> and the state
IfElse(ps) ==
    IF ~picks(ps, "Else") THEN R(None, ps)
    ELSE LET ps1 == advance(ps)
             r == IF picks(ps1, "LBrace") THEN block(advance(ps1), TRUE, TRUE)
                  ELSE IF picks(ps1, "If") THEN if_expr(advance(ps1))
                  ELSE error(ps1, "expected block or if expression after else")
         IN  R(Some(r.node), r.ps)

if_expr(ps) ==
    LET c == expression(ps)
    IN  IF ~picks(c.ps, "LBrace")
        THEN error(c.ps, "expected { to open then block after if condition")
        ELSE LET t == block(advance(c.ps), TRUE, TRUE)
                 o == IfElse(t.ps)
             IN  R(If(c.node, t.node, o.node), o.ps)

\* a missing { is recorded and the block is parsed all the same
loop_expr(ps) ==
    LET ps1 == IF picks(ps, "LBrace") THEN advance(ps)
               ELSE error(ps, "expected { to open loop").ps
        r == block(ps1, TRUE, TRUE)
    IN  R(Loop(None, None, r.node), r.ps)

\* the while loop of parse_with_prec
InfixLoop(node, ps, p) ==
    IF ps.panic \/ ~(p <= prec(next(ps))) THEN R(node, ps)
    ELSE LET ps1 == advance(ps)
             cp == prec(current(ps1))
             r == CASE cp = NONE -> error(ps1, "has no infix value!")
                    [] cp = CALL -> call(ps1, node)
                    [] cp = DOT -> dot_expr(ps1, node)
                    [] cp = ASSIGN -> assign(ps1, node, cp + 1)
                    [] OTHER -> binary(ps1, node, cp + 1)
         IN  IF cp = NONE THEN r ELSE InfixLoop(r.node, r.ps, p)

parse_with_prec(ps, p) ==
    LET ps1 == advance(ps)
        c == current(ps1)
        r == CASE c.k \in {"Number", "String", "True", "False", "Nil"} -> literal(ps1)
               [] c.k = "Identifier" -> ident(ps1)
               [] c.k = "Func" -> func(ps1)
               [] c.k = "If" -> if_expr(ps1)
               [] c.k = "Loop" -> loop_expr(ps1)
               [] c.k = "LBrace" -> block(ps1, TRUE, TRUE)
               [] c.k = "Break" -> R(Break(None), ps1)
               [] c.k \in {"Not", "Sub"} -> unary(ps1)
               [] OTHER -> error(ps1, "unexpected token")
    IN  InfixLoop(r.node, r.ps, p)

\* Parser::new(s).parse_all(): the tree, the diagnostics, and whether an
\* assertion of the parser failed on the way
parse_all ==
    LET r == block(NewParser, FALSE, FALSE)
    IN  [ast |-> r.node, errors |-> r.ps.errors, panic |-> r.ps.panic,
         heap |-> r.ps.heap]

\* does the tree hold an Error node, function bodies included
RECURSIVE HasError(_)
HasError(node) ==
    CASE node.k = "Error" -> TRUE
      [] node.k = "Call" ->
            HasError(node.func) \/ \E i \in 1..Len(node.args) : HasError(node.args[i])
      [] node.k = "Value" -> node.v.t = "Function" /\ HasError(node.v.f[1].ast)
      [] node.k = "Assign" -> HasError(node.e)
      [] node.k = "Binary" -> HasError(node.a) \/ HasError(node.b)
      [] node.k = "Unary" -> HasError(node.a)
      [] node.k = "If" ->
            \/ HasError(node.cond) \/ HasError(node.then)
            \/ node.or # None /\ HasError(node.or[1])
      [] node.k = "Block" -> \E i \in 1..Len(node.stmts) : HasError(node.stmts[i])
      [] node.k = "Loop" ->
            HasError(node.run) \/ (node.cond # None /\ HasError(node.cond[1]))
      [] OTHER -> FALSE

(***************************************************************************)
(* One line of the read-eval-print loop (repl.rs): the line is parsed by   *)
(* from_str and, if that returns Ok, executed on a fresh VM.               *)
(***************************************************************************)
T_a == Identifier("a")
T_1 == NumberTok(1)

Alphabet ==
    {T_a, T_1, Tk("Func"), Tk("If"), Tk("Else"), Tk("Loop"), Tk("Break"),
     Tk("LBrace"), Tk("RBrace"), Tk("LParen"), Tk("RParen"), Tk("Comma"),
     Tk("Dot"), Tk("Assign"), Tk("AddEq"), Tk("Add"), Tk("Sub"), Tk("Semicolon")}

RECURSIVE SeqsUpTo(_)
SeqsUpTo(n) ==
    IF n = 0 THEN {<<>>}
    ELSE LET shorter == SeqsUpTo(n - 1)
         IN  shorter \cup {Append(q, t) : q \in shorter, t \in Alphabet}

\* longer lines: a function literal with a stray token in its body, calls of
\* function literals, loops, conditionals, chains of assignments
Lines ==
    {<<Tk("Func"), Tk("LParen"), Tk("RParen"), Tk("LBrace"), Tk("RParen"), Tk("RBrace")>>,
     <<Tk("Func"), Tk("LParen"), T_a, Tk("RParen"), Tk("LBrace"), T_a, Tk("RBrace"),
       Tk("LParen"), T_1, Tk("RParen")>>,
     <<Tk("Func"), Tk("LParen"), T_a, Tk("RParen"), Tk("LBrace"), T_a, Tk("RBrace"),
       Tk("LParen"), Tk("RParen")>>,
     <<Tk("Func"), T_a, Tk("LParen"), Tk("RParen"), Tk("LBrace"), Tk("Break"), Tk("RBrace"),
       T_a, Tk("LParen"), Tk("RParen")>>,
     <<Tk("Func"), Tk("LParen"), T_a, T_a, Tk("RParen"), Tk("LBrace"), Tk("RBrace")>>,
     <<Tk("Loop"), Tk("LBrace"), Tk("Break"), Tk("RBrace")>>,
     <<Tk("Loop"), Tk("LBrace"), T_a, Tk("Assign"), T_1, Tk("Break"), Tk("RBrace")>>,
     <<Tk("Loop"), Tk("LBrace"), Tk("Break"), Tk("Comma"), Tk("RBrace")>>,
     <<Tk("If"), T_1, Tk("LBrace"), T_a, Tk("Assign"), T_1, Tk("RBrace"),
       Tk("Else"), Tk("LBrace"), Tk("RBrace")>>,
     <<Tk("If"), Tk("Nil"), Tk("LBrace"), Tk("RBrace"), Tk("Else"), Tk("If"), T_1,
       Tk("LBrace"), Tk("Sub"), T_1, Tk("RBrace")>>,
     <<Tk("If"), T_1, Tk("LBrace"), Tk("RBrace"), Tk("Else"), T_1>>,
     <<T_a, Tk("Assign"), Identifier("b"), Tk("Assign"), Identifier("c")>>,
     <<T_1, Tk("Add"), NumberTok(2), Tk("Mul"), T_1>>,
     <<T_1, Tk("Assign"), T_1, Tk("Add"), T_1>>,
     <<T_a, Tk("Dot"), Identifier("b"), Tk("LParen"), T_1, Tk("Comma"), T_a, Tk("RParen")>>,
     <<T_a, Tk("LParen"), T_1, T_1, Tk("RParen")>>,
     <<Tk("LBrace"), T_a, Tk("Assign"), T_1, T_a>>,
     <<Tk("Sub"), T_a, Tk("Add"), Identifier("b")>>,
     <<Tk("Not"), T_a, Tk("Eq"), Identifier("b")>>,
     <<T_1, Tk("Add"), NumberTok(2), Tk("Mul"), NumberTok(3)>>,
     <<T_1, Tk("Mul"), NumberTok(2), Tk("Add"), T_1>>,
     <<T_a, Tk("AddEq"), Identifier("b"), Tk("Assign"), T_1>>,
     <<Tk("LBrace"), T_a, Tk("RBrace"), Tk("Assign"), T_1>>,
     <<Tk("Func"), Tk("LParen"), T_a, Identifier("b"), Tk("RParen"), Tk("LBrace"),
       Tk("RBrace")>>,
     <<Tk("Func"), Tk("LParen"), T_a, Tk("Comma"), Identifier("b"), Tk("RParen"),
       Tk("LBrace"), Tk("RBrace")>>,
     <<Identifier("x"), Tk("Assign"), NumberTok(5), Tk("Semicolon"),
       Identifier("x"), Tk("AddEq"), NumberTok(2), Tk("Semicolon"), Identifier("x")>>,
     <<Identifier("x"), Tk("Assign"), T_1, Identifier("x"), Tk("AddEq"), NumberTok(2),
       Identifier("x")>>}

Sources == SeqsUpTo(MaxToks) \cup Lines

InitParse ==
    /\ markers = <<>>
    /\ locals = <<>>
    /\ exit_flag = Continue
    /\ kont = <<>>
    /\ ret = NoRet
    /\ panic = ""
    /\ runs = 0
    /\ ev = EvNone
    /\ source \in Sources
    /\ parsed = <<>>
    /\ probe = ProbeNone
    /\ heap = <<>>
    /\ lexer = NoLexer

\* impl FromStr for Ast: parsed holds the tree and the diagnostics of
\* parse_all, and ok tells whether from_str returns Ok(ast)
FromStr ==
    /\ panic = "" /\ parsed = <<>>
    /\ IF parse_all.panic
       THEN /\ panic' = "assertion failed: self.next == Token::Comma"
            /\ UNCHANGED <<parsed, heap>>
       ELSE /\ parsed' = <<[ast |-> parse_all.ast, errors |-> parse_all.errors,
                            ok |-> parse_all.errors = <<>>]>>
            /\ heap' = parse_all.heap
            /\ UNCHANGED panic
    /\ UNCHANGED <<markers, locals, exit_flag, kont, ret, runs, ev, source, probe, lexer>>

\* repl::run: vm.execute(&prog) when the line parsed
ReplExecute ==
    /\ panic = "" /\ parsed # <<>> /\ parsed[1].ok /\ runs = 0
    /\ kont' = <<NewFrame(parsed[1].ast, markers, locals)>>
    /\ ret' = NoRet
    /\ runs' = runs + 1
    /\ ev' = EvNone
    /\ UNCHANGED <<markers, locals, exit_flag, panic, source, parsed, probe, heap, lexer>>

\* VM::execute: the match on the node of the top activation
ExecuteStep(f, r) ==
    CASE f.node.k = "Call" -> CallStep(f, r)
      [] f.node.k = "FnCall" -> FunctionCall(f, r)
      [] f.node.k = "Value" -> ValueStep(f, r)
      [] f.node.k = "Ident" -> IdentStep(f, r)
      [] f.node.k = "Assign" -> AssignStep(f, r)
      [] f.node.k = "Binary" -> BinaryStep(f, r)
      [] f.node.k = "Unary" -> UnaryStep(f, r)
      [] f.node.k = "If" -> IfStep(f, r)
      [] f.node.k = "Block" -> BlockStep(f, r)
      [] f.node.k = "Loop" -> LoopStep(f, r)
      [] f.node.k = "Break" -> BreakStep(f, r)
      [] OTHER -> ErrorStep(f, r)

Execute == panic = "" /\ kont # <<>> /\ Apply(ExecuteStep(Top, ret))

NextParse == FromStr \/ ReplExecute \/ Execute

SpecParse == InitParse /\ [][NextParse]_vars

ErrorPanic == "running poorly compiled code, encountered Error node."

\* C10: a tree of parse_all that holds an Error node comes with at least one
\* diagnostic, so a tree from_str returns holds none and its execution never
\* reaches the Error arm of execute.
C10_ErrorNodeHasDiagnostic ==
    /\ parsed # <<>> =>
          /\ HasError(parsed[1].ast) => parsed[1].errors # <<>>
          /\ parsed[1].ok => ~HasError(parsed[1].ast)
    /\ \A i \in 1..Len(kont) : kont[i].node.k # "Error"
    /\ panic # ErrorPanic

\* the line  func() { ) } : the Error node is in the body of the literal
C10_Witness ==
    /\ parsed # <<>> /\ parsed[1].errors # <<>>
    /\ \E i \in 1..Len(parsed[1].ast.stmts) :
          LET st == parsed[1].ast.stmts[i]
          IN  st.k = "Value" /\ st.v.t = "Function" /\ HasError(st.v.f[1].ast)


(***************************************************************************)
(* Properties of the parser                                                *)
(***************************************************************************)
Parsed(src) == source = src /\ parsed # <<>>

Program(stmts) == Block(stmts, FALSE)

\* C11: assignment is right-associative and takes a plain identifier on the
\* left: a = b = c parses without diagnostic as Assign(a, Assign(b, c)),
\* a += b = 1 as Assign(a, Add(a, Assign(b, 1))), and an assignment to
\* anything else leaves an Error node and a diagnostic, without panic.
C11_AssignRightAssociative ==
    /\ Parsed(<<T_a, Tk("Assign"), Identifier("b"), Tk("Assign"), Identifier("c")>>)
          => /\ parsed[1].errors = <<>>
             /\ parsed[1].ast = Program(<<Assign("a", Assign("b", Ident("c")))>>)
    /\ Parsed(<<T_a, Tk("AddEq"), Identifier("b"), Tk("Assign"), T_1>>)
          => /\ parsed[1].errors = <<>>
             /\ parsed[1].ast =
                   Program(<<Assign("a", Binary("Add", Ident("a"), Assign("b", N(1))))>>)
    /\ Parsed(<<T_1, Tk("Assign"), T_1, Tk("Add"), T_1>>)
          => parsed[1].errors # <<>> /\ HasError(parsed[1].ast)

\* the precedence of the token a BinOp comes from
Prec(op) == prec(Tk(op))

\* C12: operators group by the precedence table: the operand of a prefix
\* - or ! is never a binary expression nor an assignment, the right operand
\* of a binary operator is bound by a strictly higher operator and the left
\* one by one at least as high; 1 + 2 * 3 is Add(1, Mul(2, 3)) and
\* -a + b is Add(Unary(Sub, a), b).
RECURSIVE Grouped(_)
Grouped(node) ==
    CASE node.k = "Unary" ->
            node.a.k \notin {"Binary", "Assign"} /\ Grouped(node.a)
      [] node.k = "Binary" ->
            /\ (node.a.k = "Binary" /\ node.a.op # "Access" /\ node.op # "Access")
                  => Prec(node.a.op) >= Prec(node.op)
            /\ (node.b.k = "Binary" /\ node.b.op # "Access" /\ node.op # "Access")
                  => Prec(node.b.op) > Prec(node.op)
            /\ Grouped(node.a) /\ Grouped(node.b)
      [] node.k = "Assign" -> Grouped(node.e)
      [] node.k = "Call" ->
            Grouped(node.func) /\ \A i \in 1..Len(node.args) : Grouped(node.args[i])
      [] node.k = "Value" -> node.v.t = "Function" => Grouped(node.v.f[1].ast)
      [] node.k = "If" ->
            /\ Grouped(node.cond) /\ Grouped(node.then)
            /\ node.or # None => Grouped(node.or[1])
      [] node.k = "Block" -> \A i \in 1..Len(node.stmts) : Grouped(node.stmts[i])
      [] node.k = "Loop" -> Grouped(node.run)
      [] OTHER -> TRUE

C12_PrecedenceGrouping ==
    /\ parsed # <<>> /\ parsed[1].ok => Grouped(parsed[1].ast)
    /\ Parsed(<<T_1, Tk("Add"), NumberTok(2), Tk("Mul"), NumberTok(3)>>)
          => parsed[1].ast = Program(<<Binary("Add", N(1), Binary("Mul", N(2), N(3)))>>)
    /\ Parsed(<<Tk("Sub"), T_a, Tk("Add"), Identifier("b")>>)
          => parsed[1].ast =
                Program(<<Binary("Add", Unary("Sub", Ident("a")), Ident("b"))>>)

\* C13: x = 5; x += 2; x parses without diagnostic into the three
\* statements x = 5, x = x + 2 and x, and its execution returns Number(7).
SourceC13 ==
    <<Identifier("x"), Tk("Assign"), NumberTok(5), Tk("Semicolon"),
      Identifier("x"), Tk("AddEq"), NumberTok(2), Tk("Semicolon"), Identifier("x")>>

C13_CompoundAssignProgram ==
    Parsed(SourceC13)
        => /\ parsed[1].errors = <<>>
           /\ parsed[1].ast =
                 Program(<<Assign("x", N(5)),
                           Assign("x", Binary("Add", Ident("x"), N(2))),
                           Ident("x")>>)
           /\ (runs = 1 /\ kont = <<>>) => ret = Ok(Number(7))

\* C14: parse_all returns on every token sequence, and a sequence with a
\* syntax violation (a missing comma between parameters or arguments, an
\* unmatched brace, a missing parenthesis or brace) gets a diagnostic and an
\* Error node.
Violations ==
    {<<Tk("Func"), Tk("LParen"), T_a, Identifier("b"), Tk("RParen"), Tk("LBrace"),
       Tk("RBrace")>>,
     <<Tk("Func"), Tk("LParen"), T_a, T_a, Tk("RParen"), Tk("LBrace"), Tk("RBrace")>>,
     <<T_a, Tk("LParen"), T_1, T_1, Tk("RParen")>>,
     <<Tk("LBrace"), T_a, Tk("Assign"), T_1, T_a>>,
     <<Tk("LBrace")>>, <<Tk("Func"), T_a>>, <<Tk("Func"), Tk("LParen"), Tk("RParen")>>,
     <<Tk("If"), T_1>>}

C14_ParseNeverCrashes ==
    /\ panic # "assertion failed: self.next == Token::Comma"
    /\ (parsed # <<>> /\ source \in Violations)
          => parsed[1].errors # <<>> /\ HasError(parsed[1].ast)

(***************************************************************************)
(* Lexer (fe/lexer.rs).  A source text is a sequence of characters, each a *)
(* string of length one; NUL is the character '\0' that peek_n returns     *)
(* past the end of the text.                                               *)
(***************************************************************************)
NUL == "NUL"

Lower == {"a", "b", "c", "d", "e", "f", "g", "h", "i", "j", "k", "l", "m", "n", "o",
          "p", "q", "r", "s", "t", "u", "v", "w", "x", "y", "z"}
Upper == {"A", "B", "C", "D", "E", "F", "G", "H", "I", "J", "K", "L", "M", "N", "O",
          "P", "Q", "R", "S", "T", "U", "V", "W", "X", "Y", "Z"}
Digits == <<"0", "1", "2", "3", "4", "5", "6", "7", "8", "9">>
Digit == {Digits[i] : i \in 1..10}

\* the match of Lexer::next: 'a'..='z' | 'A'..='Z' | '_'
IdentStart == Lower \cup Upper \cup {"_"}

\* the match of Lexer::identifier: '0'..'9' | 'a'..'z' | 'A'..'Z' | '_',
\* ranges without their upper end
IdentContinue == (Digit \ {"9"}) \cup (Lower \ {"z"}) \cup (Upper \ {"Z"}) \cup {"_"}

\* Lexer::new: a space at the front
LexerNew(text) ==
    [source |-> <<" ">> \o text, at |-> 0, tok_start |-> 0, out |-> <<>>, hung |-> FALSE]

peek_n(lx, n) ==
    IF lx.at + n >= Len(lx.source) THEN NUL ELSE lx.source[lx.at + n + 1]

at(lx) == peek_n(lx, 0)

peek(lx) == peek_n(lx, 1)

\* Lexer::advance; the character it returns is at(LexAdvance(lx))
LexAdvance(lx) == [lx EXCEPT !.at = @ + 1]

\* what next() hands back: a token, or a panic, and the lexer it leaves
L(tok, lx) == [tok |-> tok, lx |-> lx, panic |-> ""]
LexPanic(msg, lx) == [tok |-> Tk("Eof"), lx |-> lx, panic |-> msg]

eq_or(lx, without, with) ==
    IF peek(lx) = "=" THEN L(with, LexAdvance(lx)) ELSE L(without, lx)

RECURSIVE skip_whitespace(_)
skip_whitespace(lx) ==
    IF peek(lx) \in {" ", "\t", "\n"} THEN skip_whitespace(LexAdvance(lx)) ELSE lx

\* while !self.pick(ch) { self.advance(); }  Once at + 1 is past the end
\* peek() is NUL at every later iteration, and the loop does not end: hung.
RECURSIVE eat_through(_, _)
eat_through(lx, ch) ==
    IF peek(lx) = ch THEN LexAdvance(lx)
    ELSE IF lx.at + 1 >= Len(lx.source) /\ ch # NUL THEN [lx EXCEPT !.hung = TRUE]
    ELSE eat_through(LexAdvance(lx), ch)

\* the characters source[from ..= to] as one string (indices of the source)
RECURSIVE Text(_, _, _)
Text(src, from, to) ==
    IF from > to THEN "" ELSE src[from + 1] \o Text(src, from + 1, to)

\* self.source[self.tok_start..=self.at.min(self.source.len())]
lexeme(lx) == Text(lx.source, lx.tok_start, lx.at)

\* the slice of lexeme panics when its end is past the text
LexemeInRange(lx) == lx.at < Len(lx.source)

string(lx) ==
    LET e == eat_through(lx, "\"")
    IN  IF e.hung THEN L(Tk("Eof"), e)
        ELSE IF ~LexemeInRange(e) THEN LexPanic("range end index out of range", e)
        ELSE L(StringTok(Text(e.source, e.tok_start + 1, e.at - 1)), e)

RECURSIVE NumberLoop(_)
NumberLoop(lx) ==
    IF peek(lx) \in Digit \cup {"."} THEN NumberLoop(LexAdvance(lx)) ELSE lx

DigitValue(c) == (CHOOSE i \in 1..10 : Digits[i] = c) - 1

\* the value of the digits source[from ..= to]
RECURSIVE Decimal(_, _, _)
Decimal(src, from, to) ==
    IF from > to THEN 0
    ELSE Decimal(src, from, to - 1) * 10 + DigitValue(src[to + 1])

\* the position of the last character of the fraction that is not a 0
RECURSIVE FractionEnd(_, _, _)
FractionEnd(src, from, to) ==
    IF from > to \/ src[to + 1] # "0" THEN to ELSE FractionEnd(src, from, to - 1)

\* str::parse::<f64> on the lexeme of number(): digits with at most one '.';
\* the value is the integer n and the digits s of the fraction
number(lx) ==
    LET e == NumberLoop(lx)
        dots == {i \in e.tok_start..e.at : e.source[i + 1] = "."}
        dot == IF dots = {} THEN e.at + 1 ELSE CHOOSE i \in dots : TRUE
    IN  IF ~LexemeInRange(e) THEN LexPanic("range end index out of range", e)
        ELSE IF Cardinality(dots) > 1 THEN LexPanic("failed to parse number", e)
        ELSE L([k |-> "Number",
                s |-> Text(e.source, dot + 1, FractionEnd(e.source, dot + 1, e.at)),
                n |-> Decimal(e.source, e.tok_start, dot - 1)], e)

\* the loop of Lexer::identifier
RECURSIVE IdentifierLoop(_)
IdentifierLoop(lx) ==
    IF peek(lx) \in IdentContinue THEN IdentifierLoop(LexAdvance(lx)) ELSE lx

Keywords ==
    ("let" :> "Let") @@ ("const" :> "Const") @@ ("pub" :> "Pub") @@ ("use" :> "Use")
        @@ ("func" :> "Func") @@ ("enum" :> "Enum") @@ ("struct" :> "Struct")
        @@ ("if" :> "If") @@ ("else" :> "Else") @@ ("true" :> "True")
        @@ ("false" :> "False") @@ ("nil" :> "Nil")

identifier(lx) ==
    LET e == IdentifierLoop(lx)
        str == lexeme(e)
    IN  IF ~LexemeInRange(e) THEN LexPanic("range end index out of range", e)
        ELSE IF str \in DOMAIN Keywords THEN L(Tk(Keywords[str]), e)
        ELSE L(Identifier(str), e)

\* Lexer::next
LexerNext(lx) ==
    LET w == LexAdvance(skip_whitespace(lx))
        nxt == at(w)
        l == [w EXCEPT !.tok_start = w.at]
        pick(ch) == peek(l) = ch
    IN  CASE nxt \in IdentStart -> identifier(l)
          [] nxt \in Digit -> number(l)
          [] nxt = "-" -> IF pick(">") THEN L(Tk("Arrow"), LexAdvance(l))
                          ELSE eq_or(l, Tk("Sub"), Tk("SubEq"))
          [] nxt = "=" -> eq_or(l, Tk("Assign"), Tk("Eq"))
          [] nxt = ">" -> eq_or(l, Tk("Gt"), Tk("GtEq"))
          [] nxt = "<" -> eq_or(l, Tk("Lt"), Tk("LtEq"))
          [] nxt = "." -> L(Tk("Dot"), l)
          [] nxt = "?" -> L(Tk("Question"), l)
          [] nxt = "@" -> L(Tk("At"), l)
          [] nxt = "," -> L(Tk("Comma"), l)
          [] nxt = ";" -> L(Tk("Semicolon"), l)
          [] nxt = "!" -> eq_or(l, Tk("Not"), Tk("NotEq"))
          [] nxt = "+" -> eq_or(l, Tk("Add"), Tk("AddEq"))
          [] nxt = "*" -> IF pick("*") THEN eq_or(LexAdvance(l), Tk("Pow"), Tk("PowEq"))
                          ELSE eq_or(l, Tk("Mul"), Tk("MulEq"))
          [] nxt = "/" -> eq_or(l, Tk("Div"), Tk("DivEq"))
          [] nxt = "%" -> eq_or(l, Tk("Mod"), Tk("ModEq"))
          [] nxt = "&" /\ pick("&") -> L(Tk("And"), LexAdvance(l))
          [] nxt = "|" /\ pick("|") -> L(Tk("Or"), LexAdvance(l))
          [] nxt = "(" -> L(Tk("LParen"), l)
          [] nxt = ")" -> L(Tk("RParen"), l)
          [] nxt = "{" -> L(Tk("LBrace"), l)
          [] nxt = "}" -> L(Tk("RBrace"), l)
          [] nxt = "[" -> L(Tk("LBracket"), l)
          [] nxt = "]" -> L(Tk("RBracket"), l)
          [] nxt = NUL -> L(Tk("Eof"), l)
          [] nxt = "\"" -> string(l)
          [] OTHER -> LexPanic("unknown character", l)

(***************************************************************************)
(* One Lexer: Lexer::new(text), then calls of next(), one after another.   *)
(***************************************************************************)
LexAlphabet == {"a", "z", "Z", "9", "_", "\"", " ", "="}

RECURSIVE TextsUpTo(_)
TextsUpTo(n) ==
    IF n = 0 THEN {<<>>}
    ELSE LET shorter == TextsUpTo(n - 1)
         IN  shorter \cup {Append(q, c) : q \in shorter, c \in LexAlphabet}

\* size, x9, fooZ, if, nil, func, else9, ix = 1.50, 1.2.3, a && b, a & b,
\* "ab"+"", "ab, x;
LongTexts ==
    {<<"s", "i", "z", "e">>, <<"x", "9">>, <<"f", "o", "o", "Z">>, <<"i", "f">>,
     <<"n", "i", "l">>, <<"f", "u", "n", "c">>, <<"e", "l", "s", "e", "9">>,
     <<"i", "x", " ", "=", " ", "1", ".", "5", "0">>, <<"1", ".", "2", ".", "3">>,
     <<"a", " ", "&", "&", " ", "b">>, <<"a", " ", "&", " ", "b">>,
     <<"\"", "a", "b", "\"", "+", "\"", "\"">>, <<"\"", "a", "b">>, <<"x", ";">>}

Texts == TextsUpTo(MaxText) \cup LongTexts

InitLex ==
    /\ markers = <<>>
    /\ locals = <<>>
    /\ exit_flag = Continue
    /\ kont = <<>>
    /\ ret = NoRet
    /\ panic = ""
    /\ runs = 0
    /\ ev = EvNone
    /\ source = <<>>
    /\ parsed = <<>>
    /\ probe = ProbeNone
    /\ heap = <<>>
    /\ \E text \in Texts : lexer = LexerNew(text)

\* one call of lexer.next(): it returns a token, panics, or never returns
LexNext ==
    /\ panic = "" /\ ~lexer.hung /\ Len(lexer.out) < MaxCalls
    /\ LET r == LexerNext(lexer)
       IN  IF r.panic # ""
           THEN panic' = r.panic /\ UNCHANGED lexer
           ELSE /\ lexer' = IF r.lx.hung THEN [lexer EXCEPT !.hung = TRUE]
                            ELSE [r.lx EXCEPT !.out = Append(@, r.tok)]
                /\ UNCHANGED panic
    /\ UNCHANGED <<markers, locals, exit_flag, kont, ret, runs, ev, source, parsed, probe,
                   heap>>

SpecLex == InitLex /\ [][LexNext]_vars

(***************************************************************************)
(* Properties of the lexer                                                 *)
(***************************************************************************)
\* the text the lexer was made for
TextOf(lx) == Tail(lx.source)

IsIdentifierText(text) ==
    /\ text # <<>> /\ text[1] \in IdentStart
    /\ \A i \in 2..Len(text) : text[i] \in Digit \cup Lower \cup Upper \cup {"_"}
    /\ Text(text, 0, Len(text) - 1) \notin DOMAIN Keywords

\* C16: for a text made of a letter or _ followed by letters, digits and _
\* that is no keyword, the first call of next returns one Identifier token
\* carrying the whole text, and the second call returns Eof.
C16_IdentifierMaximalRun ==
    LET text == TextOf(lexer)
    IN  IsIdentifierText(text)
            => /\ panic = "" /\ ~lexer.hung
               /\ Len(lexer.out) >= 1
                     => lexer.out[1] = Identifier(Text(text, 0, Len(text) - 1))
               /\ Len(lexer.out) >= 2 => lexer.out[2] = Tk("Eof")

\* the characters that start a token on their own in Lexer::next
RecognizedChars ==
    IdentStart \cup Digit
        \cup {"-", "=", ">", "<", ".", "?", "@", ",", ";", "!", "+", "*", "/", "%",
              "(", ")", "{", "}", "[", "]", "\"", " "}

Recognized(text) == \A i \in 1..Len(text) : text[i] \in RecognizedChars

\* C17: for a text of recognized characters, every call of next returns (it
\* neither runs for ever nor panics), Eof is returned after at most as many
\* tokens as the text has characters, and every call after an Eof returns
\* Eof.
C17_NextReturnsAndEofSticks ==
    Recognized(TextOf(lexer)) =>
    /\ ~lexer.hung
    /\ panic = ""
    /\ (\A i \in 1..Len(lexer.out) : lexer.out[i] # Tk("Eof"))
          => Len(lexer.out) <= Len(TextOf(lexer))
    /\ \A i, j \in 1..Len(lexer.out) :
          (i < j /\ lexer.out[i] = Tk("Eof")) => lexer.out[j] = Tk("Eof")

====
